---- MODULE Spec2Model ----
(***************************************************************************)
(* Fenced 32-bit memory accessor of MicroPXL (Source/WriteMemSafe.c):      *)
(*                                                                         *)
(*   writeMemSafe(address, value):                                         *)
(*     __sync_synchronize; store value to the 32 bits at address;          *)
(*     __sync_synchronize                                                  *)
(*   readMemSafe(address):                                                 *)
(*     __sync_synchronize; value := load of the 32 bits at address;        *)
(*     __sync_synchronize; return value                                    *)
(*                                                                         *)
(* The two functions are modelled as the sequences of events they execute. *)
(* They run on a machine with two execution contexts that share a          *)
(* word-addressed memory.  The accesses are plain (neither volatile nor    *)
(* atomic), so the machine is a relaxed one: every context has a store     *)
(* buffer that drains to memory in any order that keeps the stores to one  *)
(* address in order, and a context may execute the events of its program   *)
(* out of program order unless a barrier, an access to the same address or *)
(* a data dependency orders them.  __sync_synchronize() is a full barrier: *)
(* it executes when every earlier event of the context has executed and    *)
(* the store buffer of the context is empty, and no later event executes   *)
(* before it.                                                              *)
(*                                                                         *)
(* The callers are not part of the repository.  Every context runs one of  *)
(* a few short caller programs (the round trip, the independence and the   *)
(* alternating scenario of the specification, and the message-passing,     *)
(* store-buffering and increment litmus programs).                         *)
(***************************************************************************)
EXTENDS Integers, Sequences, FiniteSets, TLC

\* Number of 32-bit locations of the memory (addresses 0 .. NumAddr-1).
NumAddr == 2

\* Number of rounds of the alternating write/read scenario.
MaxRounds == 2

\* uint32_t: a value is a pair <<high half, low half>> of 16-bit halves, so
\* that all 32 bits are kept; Half is 2^16.
Half == 65536

Zero == <<0, 0>>

AllOnes == <<Half - 1, Half - 1>>

\* v + n modulo 2^32, for a small n.
Add(v, n) == << (v[1] + ((v[2] + n) \div Half)) % Half, (v[2] + n) % Half >>

\* No value yet.
None == << >>

Ctx == {1, 2}

Addr == 0 .. (NumAddr - 1)

Other(c) == 3 - c

\* The value every location may hold before the programs start.
InitVals == {Zero, AllOnes}

VARIABLES
  pid,     \* pid[c]: which of the programs context c runs
  mem0,    \* the memory contents at the start
  mem,     \* mem[a]: the 32 bits at address a
  sb,      \* sb[c]: the store buffer of context c
  trace,   \* trace[c]: the events context c has executed, in execution order
  local,   \* local[c][k]: the local variable `value` of call k (readMemSafe)
  res,     \* res[c][k]: what call k returned to the caller (None: not yet)
  lock,    \* the callers' lock: 0 or the context that holds it
  wseq     \* wseq[a]: the stores that reached address a, in order

vars == <<pid, mem0, mem, sb, trace, local, res, lock, wseq>>

----------------------------------------------------------------------------
\* Events

\* An argument the caller passes: a constant, or the result of an earlier
\* call of the same context plus a constant.
Const(v) == [base |-> v, reg |-> 0, inc |-> 0]

Plus(k, n) == [base |-> Zero, reg |-> k, inc |-> n]

Ev(o, a, v) == [op |-> o, addr |-> a, arg |-> v]

\* __sync_synchronize: a full memory barrier
Barrier == Ev("fence", 0, Const(Zero))

\* writeMemSafe with the store serialised by a lock: a blocking write.
writeMemSafeLocked(address, value) ==
  << Barrier,
     Ev("lock", 0, Const(Zero)),
     Ev("store", address, value),
     Ev("unlock", 0, Const(Zero)),
     Barrier,
     Ev("ret", 0, Const(Zero)) >>

\* writeMemSafe without the barrier before the store.
writeMemSafeNoBarrierBefore(address, value) ==
  << Ev("store", address, value),
     Barrier,
     Ev("ret", 0, Const(Zero)) >>

\* writeMemSafe with a wrong pointer: the store goes to the next 32-bit
\* location.
writeMemSafeNextWord(address, value) ==
  << Barrier,
     Ev("store", (address + 1) % NumAddr, value),
     Barrier,
     Ev("ret", 0, Const(Zero)) >>

\* writeMemSafe(address, value)
writeMemSafe(address, value) ==
  << Barrier,
     Ev("store", address, value),
     Barrier,
     Ev("ret", 0, Const(Zero)) >>

\* readMemSafe without the barrier before the load.
readMemSafeNoBarrierBefore(address) ==
  << Ev("load", address, Const(Zero)),
     Barrier,
     Ev("ret", 0, Const(Zero)) >>

\* A read that clears the location it has read.
readMemSafeClearing(address) ==
  << Barrier,
     Ev("load", address, Const(Zero)),
     Ev("store", address, Const(Zero)),
     Barrier,
     Ev("ret", 0, Const(Zero)) >>

\* readMemSafe with a wrong pointer: the load reads the next 32-bit location.
readMemSafeNextWord(address) ==
  << Barrier,
     Ev("load", (address + 1) % NumAddr, Const(Zero)),
     Barrier,
     Ev("ret", 0, Const(Zero)) >>

\* readMemSafe without the barrier after the load.
readMemSafeNoBarrierAfter(address) ==
  << Barrier,
     Ev("load", address, Const(Zero)),
     Ev("ret", 0, Const(Zero)) >>

\* readMemSafe(address)
readMemSafe(address) ==
  << Barrier,
     Ev("load", address, Const(Zero)),
     Barrier,
     Ev("ret", 0, Const(Zero)) >>

----------------------------------------------------------------------------
\* Caller programs

CallW(a, v) == [fn |-> "writeMemSafe", address |-> a, arg |-> v]

CallR(a) == [fn |-> "readMemSafe", address |-> a, arg |-> Const(Zero)]

PlainStore(a, v) == [fn |-> "store", address |-> a, arg |-> v]

PlainLoad(a) == [fn |-> "load", address |-> a, arg |-> Const(Zero)]

Acquire == [fn |-> "lock", address |-> 0, arg |-> Const(Zero)]

Release == [fn |-> "unlock", address |-> 0, arg |-> Const(Zero)]

\* Store-buffering litmus: write one location, read the other.
SB(a, b) == << CallW(a, Const(<<0, 1>>)), CallR(b) >>

\* Message passing: plain store of the data (address 0), fenced write of the
\* flag (address 1).
Producer(v) == << PlainStore(0, Const(v)), CallW(1, Const(<<0, 1>>)) >>

\* Fenced read of the flag, then plain load of the data.
Consumer == << CallR(1), PlainLoad(0) >>

\* Read-modify-write of address 0 without and with the callers' lock.
Inc == << CallR(0), CallW(0, Plus(1, 1)) >>

LockedInc == << Acquire, CallR(0), CallW(0, Plus(2, 1)), Release >>

\* Alternating writes of 0x00000000 and 0xFFFFFFFF, each followed by a read:
\* n rounds of one write and one read, the first round writing 0x00000000.
Alt(n) ==
  LET rounds[r \in 0 .. n] ==
        IF r = 0 THEN << >>
        ELSE rounds[r - 1]
             \o << CallW(0, Const(IF r % 2 = 1 THEN Zero ELSE AllOnes)), CallR(0) >>
  IN  rounds[n]

\* write(a, v1); write(b, v2); read(a); read(b)
Indep(v1, v2) ==
  << CallW(0, Const(v1)), CallW(1, Const(v2)), CallR(0), CallR(1) >>

\* Two successive reads of one address.
ReadRead(a) == << CallR(a), CallR(a) >>

\* A plain store followed by a fenced read of the same address.
StoreRead(v) == << PlainStore(0, Const(v)), CallR(0) >>

Idle == << >>

\* The programs a context may run.
Programs ==
  << Idle, SB(0, 1), SB(1, 0), Consumer, Inc, LockedInc, Alt(MaxRounds),
     ReadRead(0), ReadRead(1), Producer(<<57005, 48879>>),
     StoreRead(<<57005, 48879>>), Indep(<<0, 1>>, <<57005, 48879>>) >>

\* The events of one call.
Body(call) ==
  CASE call.fn = "writeMemSafe" -> writeMemSafe(call.address, call.arg)
    [] call.fn = "readMemSafe"  -> readMemSafe(call.address)
    [] call.fn = "store"        -> << Ev("pstore", call.address, call.arg) >>
    [] call.fn = "load"         -> << Ev("pload", call.address, call.arg) >>
    [] call.fn = "lock"         -> << Ev("lock", 0, call.arg) >>
    [] call.fn = "unlock"       -> << Ev("unlock", 0, call.arg) >>

Tag(body, k, fn) ==
  [ j \in 1 .. Len(body) |->
      [k |-> k, fn |-> fn, op |-> body[j].op, addr |-> body[j].addr,
       arg |-> body[j].arg] ]

\* The events of a program: the events of its calls, in program order.
Compile(calls) ==
  LET upto[k \in 0 .. Len(calls)] ==
        IF k = 0 THEN << >>
        ELSE upto[k - 1] \o Tag(Body(calls[k]), k, calls[k].fn)
  IN  upto[Len(calls)]

\* The events of every program.
Codes == [ p \in 1 .. Len(Programs) |-> Compile(Programs[p]) ]

\* prog[c]: the calls context c makes, in program order.
prog == [ c \in Ctx |-> Programs[pid[c]] ]

\* code[c]: the events context c executes, in program order.
code == [ c \in Ctx |-> Codes[pid[c]] ]

----------------------------------------------------------------------------
\* The machine

Done(c) == { trace[c][j].i : j \in 1 .. Len(trace[c]) }

IsSync(e) == e.op \in {"fence", "lock", "unlock"}

IsAccess(e) == e.op \in {"store", "load", "pstore", "pload"}

\* Whether event e1 must execute before the later event e2 of the same context.
Ordered(e1, e2) ==
  \/ IsSync(e1)
  \/ IsSync(e2)
  \/ IsAccess(e1) /\ IsAccess(e2) /\ e1.addr = e2.addr
  \/ e2.op = "ret" /\ (e1.k = e2.k \/ e1.op = "ret")
  \/ e1.op = "ret" /\ e2.arg.reg = e1.k
  \/ e1.op = "pload" /\ e2.arg.reg = e1.k

\* Event i of context c may execute when the events in done have executed:
\* it has not executed, and no earlier event that has to precede it is left.
ReadyAfter(c, i, done) ==
  /\ i \notin done
  /\ \A j \in (1 .. (i - 1)) \ done : ~Ordered(code[c][j], code[c][i])

Ready(c, i) == i \in 1 .. Len(code[c]) /\ ReadyAfter(c, i, Done(c))

\* The value of an argument of context c.
Eval(c, a) == IF a.reg = 0 THEN a.base ELSE Add(res[c][a.reg], a.inc)

\* The positions of the stores to address a in the store buffer of c.
Pending(c, a) == { p \in 1 .. Len(sb[c]) : sb[c][p].addr = a }

Max(S) == CHOOSE m \in S : \A n \in S : n <= m

\* What a load of address a by context c returns: the context's own latest
\* buffered store to a, else the memory's contents.
ReadValue(c, a) ==
  IF Pending(c, a) = {} THEN mem[a] ELSE sb[c][Max(Pending(c, a))].val

\* The address the caller passed to the call an event belongs to.
CallAddr(c, i) == prog[c][code[c][i].k].address

\* What is recorded of an executed event.
Note(c, i) == [i |-> i, seen |-> 0, snap |-> Zero]

\* What is recorded of a load: how many stores had reached the address of
\* its call, and the contents of that address, when it executed.
LoadNote(c, i) ==
  [i |-> i, seen |-> Len(wseq[CallAddr(c, i)]), snap |-> mem[CallAddr(c, i)]]

\* A barrier for the compiler only: it keeps the order in which the context
\* executes its events and does not wait for the store buffer to drain.
FenceCompilerOnly(c, i) ==
  /\ code[c][i].op = "fence"
  /\ Ready(c, i)
  /\ trace' = [trace EXCEPT ![c] = Append(@, Note(c, i))]
  /\ UNCHANGED <<pid, mem0, mem, sb, local, res, lock, wseq>>

\* __sync_synchronize: a full memory barrier
Fence(c, i) ==
  /\ code[c][i].op = "fence"
  /\ Ready(c, i)
  /\ sb[c] = << >>
  /\ trace' = [trace EXCEPT ![c] = Append(@, Note(c, i))]
  /\ UNCHANGED <<pid, mem0, mem, sb, local, res, lock, wseq>>

\* The store of writeMemSafe narrowed to 16 bits: only the low half of the
\* location is replaced.
StoreLowHalf(c, i) ==
  /\ code[c][i].op = "store"
  /\ Ready(c, i)
  /\ sb' = [sb EXCEPT ![c] =
             Append(@, [i |-> i, addr |-> code[c][i].addr,
                        val |-> << ReadValue(c, code[c][i].addr)[1],
                                   Eval(c, code[c][i].arg)[2] >>])]
  /\ trace' = [trace EXCEPT ![c] = Append(@, Note(c, i))]
  /\ UNCHANGED <<pid, mem0, mem, local, res, lock, wseq>>

\* the store of writeMemSafe: value goes to the 32 bits at address
Store(c, i) ==
  /\ code[c][i].op = "store"
  /\ Ready(c, i)
  /\ sb' = [sb EXCEPT ![c] = Append(@, [i |-> i, addr |-> code[c][i].addr,
                                         val |-> Eval(c, code[c][i].arg)])]
  /\ trace' = [trace EXCEPT ![c] = Append(@, Note(c, i))]
  /\ UNCHANGED <<pid, mem0, mem, local, res, lock, wseq>>

\* the load of readMemSafe: the 32 bits at address go to the local value
Load(c, i) ==
  /\ code[c][i].op = "load"
  /\ Ready(c, i)
  /\ local' = [local EXCEPT ![c][code[c][i].k] = ReadValue(c, code[c][i].addr)]
  /\ trace' = [trace EXCEPT ![c] = Append(@, LoadNote(c, i))]
  /\ UNCHANGED <<pid, mem0, mem, sb, res, lock, wseq>>

\* A return that loses the loaded value.
RetZero(c, i) ==
  /\ code[c][i].op = "ret"
  /\ Ready(c, i)
  /\ res' = [res EXCEPT ![c][code[c][i].k] = Zero]
  /\ trace' = [trace EXCEPT ![c] = Append(@, Note(c, i))]
  /\ UNCHANGED <<pid, mem0, mem, sb, local, lock, wseq>>

\* return value  (and the return of writeMemSafe, which returns nothing)
Ret(c, i) ==
  /\ code[c][i].op = "ret"
  /\ Ready(c, i)
  /\ res' = [res EXCEPT ![c][code[c][i].k] =
               IF code[c][i].fn = "readMemSafe" THEN local[c][code[c][i].k]
               ELSE Zero]
  /\ trace' = [trace EXCEPT ![c] = Append(@, Note(c, i))]
  /\ UNCHANGED <<pid, mem0, mem, sb, local, lock, wseq>>

\* A store of the caller that does not go through writeMemSafe.
PStore(c, i) ==
  /\ code[c][i].op = "pstore"
  /\ Ready(c, i)
  /\ sb' = [sb EXCEPT ![c] = Append(@, [i |-> i, addr |-> code[c][i].addr,
                                         val |-> Eval(c, code[c][i].arg)])]
  /\ trace' = [trace EXCEPT ![c] = Append(@, Note(c, i))]
  /\ UNCHANGED <<pid, mem0, mem, local, res, lock, wseq>>

\* A load of the caller that does not go through readMemSafe.
PLoad(c, i) ==
  /\ code[c][i].op = "pload"
  /\ Ready(c, i)
  /\ res' = [res EXCEPT ![c][code[c][i].k] = ReadValue(c, code[c][i].addr)]
  /\ trace' = [trace EXCEPT ![c] = Append(@, LoadNote(c, i))]
  /\ UNCHANGED <<pid, mem0, mem, sb, local, lock, wseq>>

\* The callers' lock; taking and releasing it are full barriers.
Lock(c, i) ==
  /\ code[c][i].op = "lock"
  /\ Ready(c, i)
  /\ sb[c] = << >>
  /\ lock = 0
  /\ lock' = c
  /\ trace' = [trace EXCEPT ![c] = Append(@, Note(c, i))]
  /\ UNCHANGED <<pid, mem0, mem, sb, local, res, wseq>>

Unlock(c, i) ==
  /\ code[c][i].op = "unlock"
  /\ Ready(c, i)
  /\ sb[c] = << >>
  /\ lock = c
  /\ lock' = 0
  /\ trace' = [trace EXCEPT ![c] = Append(@, Note(c, i))]
  /\ UNCHANGED <<pid, mem0, mem, sb, local, res, wseq>>

Remove(s, p) == [ j \in 1 .. (Len(s) - 1) |-> IF j < p THEN s[j] ELSE s[j + 1] ]

\* The store at position p of the store buffer of c reaches memory.  Stores
\* to different addresses may drain in any order.
Commit(c, p) ==
  /\ p \in 1 .. Len(sb[c])
  /\ \A q \in 1 .. (p - 1) : sb[c][q].addr # sb[c][p].addr
  /\ sb[c][p].addr \in Addr
  /\ mem' = [mem EXCEPT ![sb[c][p].addr] = sb[c][p].val]
  /\ wseq' = [wseq EXCEPT ![sb[c][p].addr] = Append(@, <<c, sb[c][p].i>>)]
  /\ sb' = [sb EXCEPT ![c] = Remove(@, p)]
  /\ UNCHANGED <<pid, mem0, trace, local, res, lock>>

\* The events context c may execute next.
ReadySet(c) ==
  LET done == Done(c) IN { i \in 1 .. Len(code[c]) : ReadyAfter(c, i, done) }

\* One step of context c.
Step(c) ==
  \/ \E i \in ReadySet(c) :
       \/ Fence(c, i)
       \/ Store(c, i)
       \/ Load(c, i)
       \/ Ret(c, i)
       \/ PStore(c, i)
       \/ PLoad(c, i)
       \/ Lock(c, i)
       \/ Unlock(c, i)
  \/ \E p \in 1 .. Len(sb[c]) : Commit(c, p)

Init ==
  /\ \E p \in 1 .. Len(Programs) : \E q \in p .. Len(Programs) :
       pid = [c \in Ctx |-> IF c = 1 THEN p ELSE q]
  /\ \E m \in InitVals : mem0 = [a \in Addr |-> m]
  /\ mem = mem0
  /\ sb = [c \in Ctx |-> << >>]
  /\ trace = [c \in Ctx |-> << >>]
  /\ local = [c \in Ctx |-> [k \in 1 .. Len(prog[c]) |-> None]]
  /\ res = [c \in Ctx |-> [k \in 1 .. Len(prog[c]) |-> None]]
  /\ lock = 0
  /\ wseq = [a \in Addr |-> << >>]

Next == \E c \in Ctx : Step(c)

Spec == Init /\ [][Next]_vars

\* The same machine when neither context runs the program of MaxRounds
\* rounds: every program then makes at most two calls of the two functions.
InitCalls == Init /\ \A c \in Ctx : prog[c] # Alt(MaxRounds)

SpecCalls == InitCalls /\ [][Next]_vars

----------------------------------------------------------------------------
\* Reading the history

Calls(c) == 1 .. Len(prog[c])

Returned(c, k) == res[c][k] # None

\* The events of call k of context c that have executed, as positions of the
\* trace.
Executed(c, k) == { j \in 1 .. Len(trace[c]) : code[c][trace[c][j].i].k = k }

Started(c, k) == Executed(c, k) # {}

Min(S) == CHOOSE m \in S : \A n \in S : m <= n

\* The loads call k has executed, and the note of its (first) load.
Loaded(c, k) ==
  { j \in Executed(c, k) : code[c][trace[c][j].i].op \in {"load", "pload"} }

LoadNote1(c, k) == trace[c][Min(Loaded(c, k))]

\* The places in the order of the stores to address a of the stores of call
\* k of context c.
StorePos(c, k, a) ==
  { n \in 1 .. Len(wseq[a]) : wseq[a][n][1] = c /\ code[c][wseq[a][n][2]].k = k }

IsWrite(call, a) == call.fn \in {"writeMemSafe", "store"} /\ call.address = a

\* Call kw of c is writeMemSafe(a, v), the later call kr is readMemSafe(a) and
\* has returned, c made no other write to a between the two, and no other
\* store had reached a after the store of the write when the read loaded.
ReadsBack(c, kw, kr) ==
  /\ kw \in Calls(c) /\ kr \in Calls(c) /\ kw < kr
  /\ prog[c][kw].fn = "writeMemSafe"
  /\ prog[c][kr].fn = "readMemSafe"
  /\ prog[c][kr].address = prog[c][kw].address
  /\ \A k \in (kw + 1) .. (kr - 1) : ~IsWrite(prog[c][k], prog[c][kw].address)
  /\ Returned(c, kw) /\ Returned(c, kr)
  /\ Loaded(c, kr) # {}
  /\ \A n \in StorePos(c, kw, prog[c][kw].address) : LoadNote1(c, kr).seen <= n

----------------------------------------------------------------------------
\* C1 (round trip): writeMemSafe(a, v) followed by readMemSafe(a) in the same
\* context, with no other write to a in between, returns exactly v; the
\* alternating writes of 0x00000000 and 0xFFFFFFFF are one such program.
C1_RoundTrip ==
  \A c \in Ctx : \A k \in Calls(c) :
    ReadsBack(c, k, k + 1) => res[c][k + 1] = Eval(c, prog[c][k].arg)

\* The alternating program has read back 0x00000000 and then 0xFFFFFFFF from
\* a location that held 0xFFFFFFFF at the start, while the other context
\* was running a program of its own.
C1_Witness ==
  \E c \in Ctx :
    /\ prog[c] = Alt(MaxRounds)
    /\ mem0[0] = AllOnes
    /\ ReadsBack(c, 1, 2) /\ res[c][2] = Zero
    /\ ReadsBack(c, 3, 4) /\ res[c][4] = AllOnes
    /\ trace[Other(c)] # << >>

----------------------------------------------------------------------------
Range(f) == { f[x] : x \in DOMAIN f }

\* The stores of context c that reach memory in a step.
Drained(c) == { e \in Range(sb[c]) : e \notin Range(sb'[c]) }

\* The events context c executes in a step.
Stepped(c) ==
  IF Len(trace'[c]) > Len(trace[c]) THEN { trace'[c][Len(trace'[c])].i } ELSE {}

\* The call an event of context c belongs to.
CallOf(c, i) == prog[c][code[c][i].k]

\* writeMemSafe(a, v) changes no location other than a: executing an event
\* of the call changes no location, and when the store of the call reaches
\* memory every location other than a keeps its contents.
WriteFrame ==
  \A c \in Ctx :
    /\ \A i \in Stepped(c) : CallOf(c, i).fn = "writeMemSafe" => mem' = mem
    /\ \A e \in Drained(c) :
         CallOf(c, e.i).fn = "writeMemSafe" =>
           \A b \in Addr \ {CallOf(c, e.i).address} : mem'[b] = mem[b]

\* write(a, v1); write(b, v2); read(a) returns v1 (and read(b) returns v2):
\* a read returns what the context's last write to its address wrote, also
\* when the context wrote another address in between.
ReadsBackAcross(c, kw, kr) ==
  /\ ReadsBack(c, kw, kr)
  /\ \E k \in (kw + 1) .. (kr - 1) :
       prog[c][k].fn = "writeMemSafe" /\ prog[c][k].address # prog[c][kw].address

----------------------------------------------------------------------------
IsProducer(p) == Len(p) = 2 /\ p = Producer(p[1].arg.base)

\* Context c is the consumer, the other context the producer, the flag was
\* not set at the start, and the consumer has read the flag as set and has
\* loaded the data.
Observed(c) ==
  /\ prog[c] = Consumer
  /\ IsProducer(prog[Other(c)])
  /\ mem0[1] # <<0, 1>>
  /\ res[c][1] = <<0, 1>>
  /\ Returned(c, 2)

\* C3 (message passing): a producer stores the data with a plain store and
\* then sets the flag with writeMemSafe; a consumer that reads the flag as
\* set with readMemSafe and afterwards loads the data sees the producer's
\* data, never the stale contents.
C3_MessagePassing ==
  \A c \in Ctx : Observed(c) => res[c][2] = prog[Other(c)][1].arg.base

\* The consumer saw the flag and got the producer's data 0xDEADBEEF.
C3_Witness ==
  \E c \in Ctx :
    /\ Observed(c)
    /\ res[c][2] = <<57005, 48879>>
    /\ mem0[0] = AllOnes

----------------------------------------------------------------------------
\* Calls k and k+1 of c are readMemSafe(a), both have returned, and no store
\* reached a between the load of the first and the load of the second.
ReadTwice(c, k) ==
  /\ k \in Calls(c) /\ (k + 1) \in Calls(c)
  /\ prog[c][k].fn = "readMemSafe"
  /\ prog[c][k + 1].fn = "readMemSafe"
  /\ prog[c][k + 1].address = prog[c][k].address
  /\ Returned(c, k) /\ Returned(c, k + 1)
  /\ Loaded(c, k) # {} /\ Loaded(c, k + 1) # {}
  /\ LoadNote1(c, k).seen = LoadNote1(c, k + 1).seen

\* C4 (idempotence of read): two successive readMemSafe(a) with no write to
\* a occurring between them, from any context, return the same value.
C4_ReadIdempotent ==
  \A c \in Ctx : \A k \in Calls(c) : ReadTwice(c, k) => res[c][k] = res[c][k + 1]

\* Two successive reads returned the same value, which another context had
\* written before the first of them, and the other context has since written
\* to another address.
C4_Witness ==
  \E c \in Ctx : \E k \in Calls(c) :
    /\ ReadTwice(c, k)
    /\ res[c][k] # mem0[prog[c][k].address]
    /\ LoadNote1(c, k).seen > 0
    /\ \E b \in Addr \ {prog[c][k].address} : wseq[b] # << >>

----------------------------------------------------------------------------
IsAccessor(call) == call.fn \in {"writeMemSafe", "readMemSafe"}

\* The events call k of context c has executed, in the order it executed
\* them.
EventsOf(c, k) ==
  LET own == SelectSeq(trace[c], LAMBDA n : code[c][n.i].k = k)
  IN  [ j \in 1 .. Len(own) |-> code[c][own[j].i] ]

\* The events a call has to execute, in order.
Expected(call) ==
  IF call.fn = "writeMemSafe"
  THEN << Ev("fence", 0, Const(Zero)), Ev("store", call.address, call.arg),
          Ev("fence", 0, Const(Zero)), Ev("ret", 0, Const(Zero)) >>
  ELSE << Ev("fence", 0, Const(Zero)), Ev("load", call.address, Const(Zero)),
          Ev("fence", 0, Const(Zero)), Ev("ret", 0, Const(Zero)) >>

Untag(e) == Ev(e.op, e.addr, e.arg)

IsPrefix(s, t) == Len(s) <= Len(t) /\ \A j \in 1 .. Len(s) : s[j] = t[j]

\* The events of the calls before call k, as places in code[c].
Before(c, k) == { i \in 1 .. Len(code[c]) : code[c][i].k < k }

Accessed(c, k) == \E j \in 1 .. Len(EventsOf(c, k)) : IsAccess(EventsOf(c, k)[j])

\* C5 (event sequence): every call of writeMemSafe executes exactly barrier,
\* store, barrier, and every call of readMemSafe exactly barrier, load,
\* barrier, return of the loaded value.  The access is not issued before the
\* first barrier has completed (everything the context did before the call
\* has executed and has reached memory), and the call does not return
\* before the second barrier has completed (the access has executed and the
\* store has reached memory).
C5_EventSequence ==
  \A c \in Ctx : \A k \in Calls(c) :
    IsAccessor(prog[c][k]) =>
      /\ IsPrefix([j \in 1 .. Len(EventsOf(c, k)) |-> Untag(EventsOf(c, k)[j])],
                  Expected(prog[c][k]))
      /\ Accessed(c, k) =>
           /\ Before(c, k) \subseteq Done(c)
           /\ \A p \in 1 .. Len(sb[c]) : sb[c][p].i \notin Before(c, k)
      /\ Returned(c, k) =>
           /\ Len(EventsOf(c, k)) = 4
           /\ \A p \in 1 .. Len(sb[c]) : code[c][sb[c][p].i].k # k
           /\ prog[c][k].fn = "readMemSafe" => res[c][k] = local[c][k]

\* A context has completed a writeMemSafe and a readMemSafe call, each with
\* its four events, while the other context, after a plain store of its own,
\* is between the store and the second barrier of a writeMemSafe call.
C5_Witness ==
  \E c \in Ctx :
    /\ \E k \in Calls(c) : prog[c][k].fn = "writeMemSafe" /\ Returned(c, k)
    /\ \E k \in Calls(c) : prog[c][k].fn = "readMemSafe" /\ Returned(c, k)
    /\ \E k \in Calls(Other(c)) :
         /\ k > 1 /\ prog[Other(c)][1].fn = "store"
         /\ prog[Other(c)][k].fn = "writeMemSafe"
         /\ Len(EventsOf(Other(c), k)) = 2
         /\ sb[Other(c)] # << >>

----------------------------------------------------------------------------
\* Context c has executed its whole program and its stores have reached
\* memory.
Finished(c) == Len(trace[c]) = Len(code[c]) /\ sb[c] = << >>

BothRun(p) == \A c \in Ctx : prog[c] = p /\ Finished(c)

\* C6 (no atomicity): two contexts that each run readMemSafe(a) and then
\* writeMemSafe(a, value read + 1) can lose an increment (the witness); with
\* a lock held around the read and the write none is lost, and without the
\* lock at most one is.
C6_Increments ==
  /\ BothRun(LockedInc) => mem[0] = Add(mem0[0], 2)
  /\ BothRun(Inc) => mem[0] \in {Add(mem0[0], 1), Add(mem0[0], 2)}

\* Both contexts have incremented 0xFFFFFFFF without a lock and the location
\* holds 0: one increment is lost.
C6_Witness ==
  /\ BothRun(Inc)
  /\ mem0[0] = AllOnes
  /\ mem[0] = Zero
  /\ \A c \in Ctx : res[c][1] = AllOnes

----------------------------------------------------------------------------
\* Context c is inside a call of writeMemSafe or readMemSafe: the call has
\* executed an event and has not returned.
InCall(c) ==
  \E k \in Calls(c) : IsAccessor(prog[c][k]) /\ Started(c, k) /\ ~Returned(c, k)

\* C7 (non-blocking): a call of writeMemSafe or readMemSafe never waits for
\* a lock or for another context (inside a call the context always has a
\* step of its own to take), and a call that has started returns if its own
\* context keeps taking steps, whatever the other context does, also when
\* the other context stops in the middle of a call.
C7_NonBlocking ==
  \A c \in Ctx :
    /\ [](InCall(c) => ENABLED Step(c))
    /\ WF_vars(Step(c)) => (InCall(c) ~> ~InCall(c))

\* A context has returned from a call it started after the other context
\* had stopped between the store and the second barrier of its own call.
C7_Witness ==
  \E c \in Ctx : \E k \in Calls(c) : \E j \in Calls(Other(c)) :
    /\ IsAccessor(prog[c][k]) /\ Returned(c, k)
    /\ prog[Other(c)][j].fn = "writeMemSafe"
    /\ Len(EventsOf(Other(c), j)) = 2
    /\ sb[Other(c)] # << >>
    /\ prog[c][k].fn = "readMemSafe"
    /\ prog[c][k].address = prog[Other(c)][j].address
    /\ LoadNote1(c, k).seen = 0

----------------------------------------------------------------------------
\* The two contexts run the store-buffering litmus on locations that held 0.
Litmus ==
  /\ prog[1] = SB(0, 1)
  /\ prog[2] = SB(1, 0)
  /\ mem0[0] = Zero /\ mem0[1] = Zero

\* C8 (store buffering): when one context runs writeMemSafe(x, 1) then
\* readMemSafe(y) and the other writeMemSafe(y, 1) then readMemSafe(x), with
\* x and y 0 at the start, the two reads do not both return 0; once
\* writeMemSafe(a, v) has returned its store has reached memory, and while no
\* other store has reached a since, a holds v for every context.
C8_StoreBuffering ==
  /\ (Litmus /\ Returned(1, 2) /\ Returned(2, 2)) =>
       ~(res[1][2] = Zero /\ res[2][2] = Zero)
  /\ \A c \in Ctx : \A k \in Calls(c) :
       (prog[c][k].fn = "writeMemSafe" /\ Returned(c, k)) =>
         /\ StorePos(c, k, prog[c][k].address) # {}
         /\ Len(wseq[prog[c][k].address]) \in StorePos(c, k, prog[c][k].address)
              => mem[prog[c][k].address] = Eval(c, prog[c][k].arg)

\* The litmus has finished with one read returning 0 and the other 1.
C8_Witness ==
  /\ Litmus
  /\ \A c \in Ctx : Finished(c)
  /\ res[1][2] = Zero
  /\ res[2][2] = <<0, 1>>

----------------------------------------------------------------------------
\* The calls of a program executed one after the other on memory m, each to
\* completion, with nothing kept from one call to the next but the memory
\* and the results r returned so far.
RECURSIVE Run(_, _, _, _)
Run(calls, k, m, r) ==
  IF k > Len(calls) THEN [mem |-> m, res |-> r]
  ELSE LET call == calls[k]
           v == IF call.arg.reg = 0 THEN call.arg.base
                ELSE Add(r[call.arg.reg], call.arg.inc)
       IN  CASE call.fn = "writeMemSafe" ->
                  Run(calls, k + 1, [m EXCEPT ![call.address] = v],
                      [r EXCEPT ![k] = Zero])
             [] call.fn = "store" ->
                  Run(calls, k + 1, [m EXCEPT ![call.address] = v], r)
             [] call.fn \in {"readMemSafe", "load"} ->
                  Run(calls, k + 1, m, [r EXCEPT ![k] = m[call.address]])
             [] OTHER -> Run(calls, k + 1, m, r)

\* Context c has completed its first k calls and has not begun the next.
AtBoundary(c, k) ==
  /\ k \in 0 .. Len(prog[c])
  /\ Done(c) = { i \in 1 .. Len(code[c]) : code[c][i].k <= k }
  /\ sb[c] = << >>

\* C9 (no retained state): what readMemSafe(a) returns is the contents of a
\* at the moment of its load, and a context that runs alone ends every call
\* with the memory contents and the returned values that the memory at the
\* start and the calls made determine.
C9_NoRetainedState ==
  \A c \in Ctx :
    /\ \A k \in Calls(c) :
         (prog[c][k].fn = "readMemSafe" /\ Returned(c, k)) =>
           /\ Loaded(c, k) # {}
           /\ res[c][k] = LoadNote1(c, k).snap
    /\ \A k \in 0 .. Len(prog[c]) :
         (prog[Other(c)] = Idle /\ AtBoundary(c, k)) =>
           LET end == Run(SubSeq(prog[c], 1, k), 1, mem0, [j \in 1 .. k |-> None])
           IN  /\ mem = end.mem
               /\ \A j \in 1 .. k : res[c][j] = end.res[j]

\* A context running alone has finished the alternating program on a memory
\* of 0xFFFFFFFF; its first read returned the 0 the location held at its load.
C9_Witness ==
  \E c \in Ctx :
    /\ prog[Other(c)] = Idle
    /\ prog[c] = Alt(MaxRounds)
    /\ mem0[0] = AllOnes
    /\ AtBoundary(c, Len(prog[c]))
    /\ res[c][2] = Zero
    /\ res[c][2] = LoadNote1(c, 2).snap
    /\ mem[0] = AllOnes

----------------------------------------------------------------------------
\* readMemSafe only observes: executing an event of a call of readMemSafe
\* changes neither the memory nor any store buffer, so that every load of
\* every context returns what it would have returned, and no store that
\* reaches memory comes from a call of readMemSafe.
ReadFrame ==
  \A c \in Ctx :
    /\ \A i \in Stepped(c) :
         CallOf(c, i).fn = "readMemSafe" =>
           /\ mem' = mem /\ sb' = sb /\ wseq' = wseq /\ lock' = lock
           /\ \A d \in Ctx : \A a \in Addr : ReadValue(d, a)' = ReadValue(d, a)
    /\ \A e \in Drained(c) : CallOf(c, e.i).fn # "readMemSafe"

\* C10 (read is a pure observation): readMemSafe(a) leaves the contents of
\* every memory location, a included, unchanged, so a call of readMemSafe
\* changes neither the final memory contents nor what other reads return.
C10_ReadFrame == [][ReadFrame]_vars

\* A read has returned 0xDEADBEEF, which another context wrote, and the
\* location still holds it.
C10_Witness ==
  \E c \in Ctx : \E k \in Calls(c) :
    /\ prog[c][k].fn = "readMemSafe"
    /\ Returned(c, k)
    /\ res[c][k] = <<57005, 48879>>
    /\ mem[prog[c][k].address] = <<57005, 48879>>
    /\ wseq[prog[c][k].address] # << >>
    /\ wseq[prog[c][k].address][1][1] = Other(c)

====
